---- MODULE Spec2Model ----
(***************************************************************************)
(* Model of compass/db/database.py: the global engine, the session         *)
(* factory, the scoped-session registry, the thread-local session holder   *)
(* and the session() context manager, executed by several threads.         *)
(*                                                                         *)
(* A session() scope is a frame on its thread's stack.  Its entry (lines   *)
(* 44-51, up to the yield) is one step, the body's end with the commit or  *)
(* the except clause (lines 52-57) is one step, and the finally clause     *)
(* (lines 58-61) is one step, so that other threads and init() interleave   *)
(* between them.  init() is four steps (lines 30, 31 load, 31 call, 32).    *)
(***************************************************************************)
EXTENDS Integers, Sequences, FiniteSets, TLC

\* ---- bounds ----
NumCtx == 2        \* threads (execution contexts)
MaxDepth == 2      \* nesting depth of session() scopes in one thread
MaxSessions == 2   \* sessions the factory creates in one run
MaxEntries == 3    \* session() entries in one run
MaxInits == 1      \* init() calls in one run
NumUrls == 2       \* database urls
MaxData == 1       \* distinct rows written
NumTables == 2     \* tables of the model's metadata
MaxRacingInits == 2  \* init() calls in one run of SchemaSpec

Ctx == 1..NumCtx
Urls == 1..NumUrls
Data == 1..MaxData
\* the tables model.BASE.metadata knows
Tables == 1..NumTables

\* setting.SQLALCHEMY_DATABASE_URI, the url of the import-time engine
DefaultUrl == 1

\* the error a body raises, the error a failing commit raises, and the
\* error of `del SESSION_HOLDER.session` / `SESSION_HOLDER.session` on an
\* empty slot
BodyErrors == {"E"}
CommitError == "CommitError"
AttributeError == "AttributeError"
NoError == "none"

VARIABLES
    ENGINE,          \* global ENGINE: index into engines
    engines,         \* every engine built so far: engines[i] is its url
    SESSION,         \* the sessionmaker's configured bind (an engine)
    SCOPED_SESSION,  \* global SCOPED_SESSION: the registry generation
    SESSION_HOLDER,  \* thread-local slot: session id, 0 when unset
    sessions,        \* every session created so far
    stack,           \* per thread, the open session() scopes, outermost first
    db,              \* per url, the committed rows
    initpc,          \* per thread, its position inside init()
    initEng,         \* per thread, the ENGINE value init() loaded at line 31
    entries,         \* session() entries so far
    promised,        \* history: <<row, url>> written by scopes that exited without error
    clean,           \* history: the last init() overlapped no other init()
    lastUrl,         \* history: the url of the last init() call
    written,         \* history: the rows written so far (a row is written once)
    aborted,         \* history: the rows written by scopes whose body raised
    tables,          \* per url, the tables that exist in the database
    last             \* history: the last operation and its outcome

vars == <<ENGINE, engines, SESSION, SCOPED_SESSION, SESSION_HOLDER, sessions,
          stack, db, initpc, initEng, entries, promised, clean, lastUrl,
          written, aborted, tables, last>>

engineVars == <<ENGINE, engines, SESSION, SCOPED_SESSION, initpc, initEng, clean, lastUrl>>

Event(op, c, s, fresh, err, raised, rb) ==
    [op |-> op, ctx |-> c, sess |-> s, fresh |-> fresh, err |-> err,
     raised |-> raised, rolledBack |-> rb]

\* ---- the session object (sqlalchemy.orm.Session as database.py uses it) ----

\* sessionmaker.__call__: a new session bound to the factory's configured bind,
\* held by registry generation g for thread c
NewSession(c, g) ==
    [owner |-> c, bind |-> SESSION, reg |-> g, commits |-> 0, rollbacks |-> 0,
     closes |-> 0, closed |-> FALSE, pending |-> {}]

\* new_session.commit(): the call is counted whether or not it succeeds
CommitCalled(ss, s) ==
    [ss EXCEPT ![s].commits = @ + 1, ![s].closed = FALSE]

\* a successful commit flushes the pending rows
Flushed(ss, s) == [ss EXCEPT ![s].pending = {}]

\* new_session.rollback()
RolledBack(ss, s) ==
    [ss EXCEPT ![s].rollbacks = @ + 1, ![s].pending = {}, ![s].closed = FALSE]

\* new_session.close()
Closed(ss, s) ==
    [ss EXCEPT ![s].closes = @ + 1, ![s].pending = {}, ![s].closed = TRUE]

\* a registry that is not thread-local: remove() discards every thread's session
RemovedAnyThread(ss, c, g) ==
    [i \in DOMAIN ss |->
        IF ss[i].reg = g
        THEN [ss[i] EXCEPT !.reg = 0, !.pending = {}, !.closed = TRUE]
        ELSE ss[i]]

\* scoped_session.remove() on registry generation g by thread c: the session
\* the registry holds for the thread, if any, is closed and discarded
Removed(ss, c, g) ==
    [i \in DOMAIN ss |->
        IF ss[i].reg = g /\ ss[i].owner = c
        THEN [ss[i] EXCEPT !.reg = 0, !.pending = {}, !.closed = TRUE]
        ELSE ss[i]]

\* the session registry generation g holds for thread c, 0 if none
Registered(c, g) ==
    IF \E i \in DOMAIN sessions : sessions[i].reg = g /\ sessions[i].owner = c
    THEN CHOOSE i \in DOMAIN sessions : sessions[i].reg = g /\ sessions[i].owner = c
    ELSE 0

UrlOf(s) == engines[sessions[s].bind]

\* what a read through session s sees: the committed rows of its database
\* and its own pending rows
Visible(s) == db[UrlOf(s)] \cup sessions[s].pending

\* a commit persists the session's pending rows in the database of the
\* engine the session is bound to; here some other engine
PersistToCurrentEngine(s) ==
    [db EXCEPT ![engines[ENGINE]] = @ \cup sessions[s].pending]

\* a successful new_session.commit(): the pending rows reach the database of
\* the engine the session is bound to
Persist(s) == [db EXCEPT ![UrlOf(s)] = @ \cup sessions[s].pending]

\* ---- thread positions ----

Depth(c) == Len(stack[c])
Top(c) == stack[c][Depth(c)]
InBody(c) == Depth(c) > 0 /\ Top(c).pc = "body"
\* the thread is running caller code: outside every scope or in a scope's body
Running(c) == initpc[c] = "idle" /\ (Depth(c) = 0 \/ InBody(c))

SetTop(c, f) == [stack EXCEPT ![c] = [@ EXCEPT ![Depth(c)] = f]]
Pop(c) == [stack EXCEPT ![c] = SubSeq(@, 1, Depth(c) - 1)]

Init ==
    /\ engines = <<DefaultUrl>>
    /\ ENGINE = 1
    /\ SESSION = 1
    /\ SCOPED_SESSION = 1
    /\ SESSION_HOLDER = [c \in Ctx |-> 0]
    /\ sessions = <<>>
    /\ stack = [c \in Ctx |-> <<>>]
    /\ db = [u \in Urls |-> {}]
    /\ initpc = [c \in Ctx |-> "idle"]
    /\ initEng = [c \in Ctx |-> 0]
    /\ entries = 0
    /\ promised = {}
    /\ clean = TRUE
    /\ lastUrl = DefaultUrl
    /\ written = {}
    /\ aborted = {}
    /\ tables = [u \in Urls |-> {}]
    /\ last = Event("start", 0, 0, FALSE, NoError, NoError, FALSE)

\* ---- init(database_url), lines 20-32 ----

\* line 30: ENGINE = create_engine(database_url)
StartInit(c, u) ==
    /\ Running(c)
    /\ engines' = Append(engines, u)
    /\ ENGINE' = Len(engines) + 1
    /\ initpc' = [initpc EXCEPT ![c] = "load"]
    /\ clean' = (\A o \in Ctx \ {c} : initpc[o] = "idle")
    /\ lastUrl' = u
    /\ last' = Event("init", c, 0, FALSE, NoError, NoError, FALSE)
    /\ UNCHANGED <<SESSION, SCOPED_SESSION, SESSION_HOLDER, sessions, stack, db,
                   initEng, entries, promised,
                   written, aborted, tables>>

\* init(database_url) is called, at most MaxInits times in a run
InitEngine(c, u) == Len(engines) <= MaxInits /\ StartInit(c, u)

\* init(database_url) is called, at most MaxRacingInits times in a run
InitEngineRacing(c, u) == Len(engines) <= MaxRacingInits /\ StartInit(c, u)

\* line 31, the argument: the global ENGINE is read
InitLoad(c) ==
    /\ initpc[c] = "load"
    /\ initEng' = [initEng EXCEPT ![c] = ENGINE]
    /\ initpc' = [initpc EXCEPT ![c] = "configure"]
    /\ last' = Event("init", c, 0, FALSE, NoError, NoError, FALSE)
    /\ UNCHANGED <<ENGINE, engines, SESSION, SCOPED_SESSION, SESSION_HOLDER, sessions,
                   stack, db, entries, promised, clean, lastUrl,
                   written, aborted, tables>>

\* init() that leaves the factory bound to the engine it had
InitConfigureSkipped(c) ==
    /\ initpc[c] = "configure"
    /\ initpc' = [initpc EXCEPT ![c] = "scoped"]
    /\ last' = Event("init", c, 0, FALSE, NoError, NoError, FALSE)
    /\ UNCHANGED <<ENGINE, engines, SESSION, SCOPED_SESSION, SESSION_HOLDER, sessions,
                   stack, db, initEng, entries, promised, clean, lastUrl,
                   written, aborted, tables>>

\* line 31, the call: SESSION.configure(bind=...)
InitConfigure(c) ==
    /\ initpc[c] = "configure"
    /\ SESSION' = initEng[c]
    /\ initpc' = [initpc EXCEPT ![c] = "scoped"]
    /\ last' = Event("init", c, 0, FALSE, NoError, NoError, FALSE)
    /\ UNCHANGED <<ENGINE, engines, SCOPED_SESSION, SESSION_HOLDER, sessions,
                   stack, db, initEng, entries, promised, clean, lastUrl,
                   written, aborted, tables>>

\* line 32: SCOPED_SESSION = scoped_session(SESSION), a registry that holds
\* no session yet; init() returns
InitScoped(c) ==
    /\ initpc[c] = "scoped"
    /\ SCOPED_SESSION' = SCOPED_SESSION + 1
    /\ initpc' = [initpc EXCEPT ![c] = "idle"]
    /\ initEng' = [initEng EXCEPT ![c] = 0]
    /\ last' = Event("init_return", c, 0, FALSE, NoError, NoError, FALSE)
    /\ UNCHANGED <<ENGINE, engines, SESSION, SESSION_HOLDER, sessions,
                   stack, db, entries, promised, clean, lastUrl,
                   written, aborted, tables>>

\* ---- session(), lines 35-61 ----

\* an entry that ignores the slot and always asks the registry
EnterIgnoringSlot(c) ==
    /\ Running(c)
    /\ Depth(c) < MaxDepth
    /\ entries < MaxEntries
    /\ LET held == Registered(c, SCOPED_SESSION)
           create == held = 0
           s == IF held # 0 THEN held ELSE Len(sessions) + 1
       IN /\ create => Len(sessions) < MaxSessions
          /\ sessions' = IF create
                         THEN Append(sessions, NewSession(c, SCOPED_SESSION))
                         ELSE sessions
          /\ SESSION_HOLDER' = [SESSION_HOLDER EXCEPT ![c] = s]
          /\ stack' = [stack EXCEPT ![c] = Append(@,
                          [sess |-> s, fresh |-> TRUE, pc |-> "body",
                           err |-> NoError, rolledBack |-> FALSE,
                           scoped |-> SCOPED_SESSION, wrote |-> {},
                           mustSee |-> promised])]
          /\ last' = Event("enter", c, s, create, NoError, NoError, FALSE)
    /\ entries' = entries + 1
    /\ UNCHANGED <<engineVars, db, promised,
                   written, aborted, tables>>

\* lines 44-51: the slot's session is reused when the slot is set, otherwise
\* SCOPED_SESSION() returns the registry's session for the thread, creating
\* it when the registry holds none; the slot is set and the session yielded
Enter(c) ==
    /\ Running(c)
    /\ Depth(c) < MaxDepth
    /\ entries < MaxEntries
    /\ LET reuse == SESSION_HOLDER[c] # 0
           held == Registered(c, SCOPED_SESSION)
           create == ~reuse /\ held = 0
           s == IF reuse THEN SESSION_HOLDER[c]
                ELSE IF held # 0 THEN held ELSE Len(sessions) + 1
       IN /\ create => Len(sessions) < MaxSessions
          /\ sessions' = IF create
                         THEN Append(sessions, NewSession(c, SCOPED_SESSION))
                         ELSE sessions
          /\ SESSION_HOLDER' = [SESSION_HOLDER EXCEPT ![c] = s]
          /\ stack' = [stack EXCEPT ![c] = Append(@,
                          [sess |-> s, fresh |-> ~reuse, pc |-> "body",
                           err |-> NoError, rolledBack |-> FALSE,
                           scoped |-> SCOPED_SESSION, wrote |-> {},
                           mustSee |-> promised])]
          /\ last' = Event("enter", c, s, create, NoError, NoError, FALSE)
    /\ entries' = entries + 1
    /\ UNCHANGED <<engineVars, db, promised,
                   written, aborted, tables>>

\* the body adds a row through the yielded session; rows are distinct
\* inserts, so a row is written at most once in a run
Write(c, d) ==
    /\ Running(c)
    /\ InBody(c)
    /\ d \notin written
    /\ written' = written \cup {d}
    /\ sessions' = [sessions EXCEPT ![Top(c).sess].pending = @ \cup {d},
                                    ![Top(c).sess].closed = FALSE]
    /\ stack' = SetTop(c, [Top(c) EXCEPT !.wrote = @ \cup {d}])
    /\ last' = Event("write", c, Top(c).sess, FALSE, NoError, NoError, FALSE)
    /\ UNCHANGED <<engineVars, SESSION_HOLDER, db, entries, promised,
                   aborted, tables>>

\* line 52, and lines 53-57 when the commit raises: the body has finished
\* without raising; the commit either succeeds (ok) or raises CommitError,
\* which the except clause answers with a rollback and re-raises
BodyReturn(c, ok) ==
    /\ Running(c)
    /\ InBody(c)
    /\ LET f == Top(c)
           s == f.sess
           called == CommitCalled(sessions, s)
       IN IF ok
          THEN /\ db' = Persist(s)
               /\ sessions' = Flushed(called, s)
               /\ stack' = SetTop(c, [f EXCEPT !.pc = "finally"])
               /\ last' = Event("commit", c, s, f.fresh, NoError, NoError, FALSE)
          ELSE /\ db' = db
               /\ sessions' = RolledBack(called, s)
               /\ stack' = SetTop(c, [f EXCEPT !.pc = "finally", !.err = CommitError,
                                               !.rolledBack = TRUE])
               /\ last' = Event("commit", c, s, f.fresh, CommitError, NoError, TRUE)
    /\ UNCHANGED <<engineVars, SESSION_HOLDER, entries, promised,
                   written, aborted, tables>>

\* an except clause that re-raises without rolling back
BodyRaiseNoRollback(c, e) ==
    /\ Running(c)
    /\ InBody(c)
    /\ stack' = SetTop(c, [Top(c) EXCEPT !.pc = "finally", !.err = e])
    /\ last' = Event("rollback", c, Top(c).sess, Top(c).fresh, e, NoError, FALSE)
    /\ UNCHANGED <<engineVars, SESSION_HOLDER, sessions, db, entries, promised,
                   written, aborted, tables>>

\* lines 53-57: the body raises e; rollback, log, re-raise
BodyRaise(c, e) ==
    /\ Running(c)
    /\ InBody(c)
    /\ sessions' = RolledBack(sessions, Top(c).sess)
    /\ stack' = SetTop(c, [Top(c) EXCEPT !.pc = "finally", !.err = e,
                                          !.rolledBack = TRUE])
    /\ last' = Event("rollback", c, Top(c).sess, Top(c).fresh, e, NoError, TRUE)
    /\ UNCHANGED <<engineVars, SESSION_HOLDER, db, entries, promised,
                   written, aborted, tables>>

\* lines 59-60: new_session.close(); SCOPED_SESSION.remove(), on the registry
\* generation g the global names when the line runs
Release(ss, c, s, g) == Removed(Closed(ss, s), c, g)

\* line 61: del SESSION_HOLDER.session raises AttributeError on an unset
\* slot, and an error raised in a finally clause replaces the one in flight
Propagated(c, err) == IF SESSION_HOLDER[c] = 0 THEN AttributeError ELSE err

\* lines 58-61: the finally clause; the scope exits and its caller observes
\* the error `raised`
Finally(c) ==
    /\ initpc[c] = "idle"
    /\ Depth(c) > 0
    /\ Top(c).pc = "finally"
    /\ LET f == Top(c)
           raised == Propagated(c, f.err)
       IN /\ sessions' = Release(sessions, c, f.sess, SCOPED_SESSION)
          /\ SESSION_HOLDER' = [SESSION_HOLDER EXCEPT ![c] = 0]
          /\ stack' = Pop(c)
          /\ promised' = IF raised = NoError
                         THEN promised \cup {<<d, UrlOf(f.sess)>> : d \in f.wrote}
                         ELSE promised
          /\ aborted' = IF f.err \in BodyErrors THEN aborted \cup f.wrote ELSE aborted
          /\ last' = Event("exit", c, f.sess, f.fresh, f.err, raised, f.rolledBack)
    /\ UNCHANGED <<engineVars, db, entries, written, tables>>

\* ---- current_session(), lines 64-78 ----

\* a lookup that answers an unset slot with no session instead of an error
CurrentSessionReturnsNone(c) ==
    /\ Running(c)
    /\ last' = Event("current_session", c, SESSION_HOLDER[c], FALSE, NoError,
                     NoError, FALSE)
    /\ UNCHANGED <<engineVars, SESSION_HOLDER, sessions, stack, db, entries, promised,
                   written, aborted, tables>>

\* the slot's session is returned; on an unset slot the AttributeError is
\* logged and re-raised
CurrentSession(c) ==
    /\ Running(c)
    /\ last' = Event("current_session", c, SESSION_HOLDER[c], FALSE, NoError,
                     IF SESSION_HOLDER[c] = 0 THEN AttributeError ELSE NoError, FALSE)
    /\ UNCHANGED <<engineVars, SESSION_HOLDER, sessions, stack, db, entries, promised,
                   written, aborted, tables>>

\* ---- create_db, drop_db, create_table, drop_table, lines 81-112 ----

SchemaEvent(op, c, t, existed, raised) ==
    [op |-> op, ctx |-> c, sess |-> 0, fresh |-> FALSE, err |-> NoError,
     raised |-> raised, rolledBack |-> FALSE, table |-> t, existed |-> existed]

\* the database the global ENGINE names when a schema helper runs
CurrentDb == engines[ENGINE]

SchemaFrame ==
    UNCHANGED <<engineVars, SESSION_HOLDER, sessions, stack, db, entries, promised,
                written, aborted>>

\* line 83: metadata.create_all(bind=ENGINE) creates every missing table
CreateDb(c) ==
    /\ Running(c)
    /\ tables' = [tables EXCEPT ![CurrentDb] = @ \cup Tables]
    /\ last' = SchemaEvent("create_db", c, 0, tables[CurrentDb] = Tables, NoError)
    /\ SchemaFrame

\* line 88: metadata.drop_all(bind=ENGINE) drops every existing table
DropDb(c) ==
    /\ Running(c)
    /\ tables' = [tables EXCEPT ![CurrentDb] = @ \ Tables]
    /\ last' = SchemaEvent("drop_db", c, 0, tables[CurrentDb] # {}, NoError)
    /\ SchemaFrame

\* create(bind=ENGINE) without checkfirst: CREATE TABLE is issued and fails
\* on a table that exists
CreateTableUnchecked(c, t) ==
    /\ Running(c)
    /\ tables' = [tables EXCEPT ![CurrentDb] = @ \cup {t}]
    /\ last' = SchemaEvent("create_table", c, t, t \in tables[CurrentDb],
                           IF t \in tables[CurrentDb] THEN "OperationalError" ELSE NoError)
    /\ SchemaFrame

\* line 100: table.__table__.create(bind=ENGINE, checkfirst=True): the table
\* is looked up first and CREATE TABLE is issued only when it is missing
CreateTable(c, t) ==
    /\ Running(c)
    /\ tables' = IF t \in tables[CurrentDb]
                 THEN tables
                 ELSE [tables EXCEPT ![CurrentDb] = @ \cup {t}]
    /\ last' = SchemaEvent("create_table", c, t, t \in tables[CurrentDb], NoError)
    /\ SchemaFrame

\* line 112: table.__table__.drop(bind=ENGINE, checkfirst=True): the table is
\* looked up first and DROP TABLE is issued only when it exists
DropTable(c, t) ==
    /\ Running(c)
    /\ tables' = IF t \in tables[CurrentDb]
                 THEN [tables EXCEPT ![CurrentDb] = @ \ {t}]
                 ELSE tables
    /\ last' = SchemaEvent("drop_table", c, t, t \in tables[CurrentDb], NoError)
    /\ SchemaFrame

Next ==
    \/ \E c \in Ctx, u \in Urls : InitEngine(c, u)
    \/ \E c \in Ctx : InitLoad(c)
    \/ \E c \in Ctx : InitConfigure(c)
    \/ \E c \in Ctx : InitScoped(c)
    \/ \E c \in Ctx : Enter(c)
    \/ \E c \in Ctx, d \in Data : Write(c, d)
    \/ \E c \in Ctx, ok \in BOOLEAN : BodyReturn(c, ok)
    \/ \E c \in Ctx, e \in BodyErrors : BodyRaise(c, e)
    \/ \E c \in Ctx : Finally(c)
    \/ \E c \in Ctx : CurrentSession(c)

Spec == Init /\ [][Next]_vars

\* threads call init() (concurrently, up to MaxRacingInits times) and the
\* schema helpers; no scope is opened
SchemaNext ==
    \/ \E c \in Ctx, u \in Urls : InitEngineRacing(c, u)
    \/ \E c \in Ctx : InitLoad(c)
    \/ \E c \in Ctx : InitConfigure(c)
    \/ \E c \in Ctx : InitScoped(c)
    \/ \E c \in Ctx : CreateDb(c)
    \/ \E c \in Ctx : DropDb(c)
    \/ \E c \in Ctx, t \in Tables : CreateTable(c, t)
    \/ \E c \in Ctx, t \in Tables : DropTable(c, t)

SchemaSpec == Init /\ [][SchemaNext]_vars

\* ---- the claims ----

AllIdle == \A c \in Ctx : initpc[c] = "idle"
Open == {p \in Ctx \X (1..(MaxDepth + 1)) : p[2] <= Len(stack[p[1]])}
FrameAt(p) == stack[p[1]][p[2]]
\* the last step was the exit of a scope
Exited == last.op = "exit"
\* ... of a scope whose body raised
ExitedRaising == Exited /\ last.err \in BodyErrors
\* ... of a scope whose body finished without raising
ExitedReturning == Exited /\ last.err \notin BodyErrors

\* C1: when a scope whose body finished without raising has exited, its
\* session has been committed exactly once and closed exactly once, and the
\* thread's slot is unset.
C1_CommittedOnceClosedOnce ==
    ExitedReturning =>
        /\ sessions[last.sess].commits = 1
        /\ sessions[last.sess].closes = 1
        /\ SESSION_HOLDER[last.ctx] = 0

\* C2: a scope whose body raised has rolled its session back (leaving it
\* open, with nothing pending) when it reaches its finally clause, and when
\* it has exited the session is closed, an error has reached the caller and
\* the thread's slot is unset.
C2_RolledBackThenClosed ==
    /\ \A p \in Open :
          (FrameAt(p).pc = "finally" /\ FrameAt(p).err \in BodyErrors) =>
              /\ FrameAt(p).rolledBack
              /\ sessions[FrameAt(p).sess].rollbacks >= 1
              /\ sessions[FrameAt(p).sess].pending = {}
              /\ ~sessions[FrameAt(p).sess].closed
    /\ ExitedRaising =>
          /\ last.rolledBack
          /\ sessions[last.sess].closed
          /\ sessions[last.sess].closes >= 1
          /\ sessions[last.sess].pending = {}
          /\ last.raised # NoError
          /\ SESSION_HOLDER[last.ctx] = 0

C2_Witness ==
    /\ ExitedRaising
    /\ sessions[last.sess].rollbacks = 1
    /\ sessions[last.sess].closed

\* C3: the error the caller of a scope observes is the error the scope's
\* body raised.
C3_OriginalErrorPropagates == ExitedRaising => last.raised = last.err

\* C4: current_session() called inside a scope returns the session the
\* scope yielded.
C4_CurrentSessionIsScopeSession ==
    (last.op = "current_session" /\ Depth(last.ctx) > 0) =>
        /\ last.raised = NoError
        /\ last.sess = Top(last.ctx).sess

\* C5: current_session() called by a thread that is in no scope raises, and
\* the call changes neither the slots, the engine, the factory, the
\* registry, the sessions, the scopes nor the databases.
C5_CurrentSessionOutsideScopeFails ==
    [][\A c \in Ctx :
          (last'.op = "current_session" /\ last'.ctx = c /\ Depth(c) = 0) =>
              /\ last'.raised = AttributeError
              /\ last'.sess = 0
              /\ UNCHANGED <<SESSION_HOLDER, ENGINE, engines, SESSION,
                             SCOPED_SESSION, sessions, stack, db>>]_vars

C5_Witness ==
    /\ last.op = "current_session"
    /\ Depth(last.ctx) = 0
    /\ last.raised = AttributeError
    /\ \E o \in Ctx \ {last.ctx} : SESSION_HOLDER[o] # 0

\* C6: the scopes open in one thread have obtained at most one session from
\* the factory among them.
C6_OneActiveSessionPerContext ==
    \A c \in Ctx :
        Cardinality({stack[c][i].sess : i \in {j \in DOMAIN stack[c] : stack[c][j].fresh}}) <= 1

\* C7: when a scope has exited, its session is closed, no registry holds it
\* and the thread's slot is unset.
C7_ReleasedOnEveryExit ==
    Exited =>
        /\ sessions[last.sess].closed
        /\ sessions[last.sess].reg = 0
        /\ SESSION_HOLDER[last.ctx] = 0

\* C8: a step of init() changes no session, slot or scope, and the exit of
\* a scope releases its session as it would have had SCOPED_SESSION still
\* been the registry of the scope's entry.
C8_InitDoesNotAffectOpenScope ==
    [][/\ last'.op \in {"init", "init_return"} =>
              UNCHANGED <<sessions, SESSION_HOLDER, stack, db>>
       /\ \A c \in Ctx :
              (last'.op = "exit" /\ last'.ctx = c /\ Len(stack'[c]) = Len(stack[c]) - 1) =>
                  sessions' = Release(sessions, c, Top(c).sess, Top(c).scoped)]_vars

C10_CommittedWritesVisibleLater ==
    \A p \in Open : \A w \in FrameAt(p).mustSee : w[1] \in Visible(FrameAt(p).sess)

\* C10 as amended: every open scope sees every row that a scope which had
\* exited without error before it was entered wrote to the database the
\* open scope's session is bound to.
C10_CommittedWritesVisibleSameDatabase ==
    \A p \in Open : \A w \in FrameAt(p).mustSee :
        w[2] = UrlOf(FrameAt(p).sess) => w[1] \in Visible(FrameAt(p).sess)

C10_Witness ==
    \E p \in Open : \E w \in FrameAt(p).mustSee :
        /\ w[2] = UrlOf(FrameAt(p).sess)
        /\ sessions[FrameAt(p).sess].pending = {}
        /\ FrameAt(p).wrote = {}
        /\ FrameAt(p).fresh

\* C11: a scope that is entered sees no row that was written by a scope
\* whose body had raised and which had exited before.
C11_RolledBackWritesInvisible ==
    last.op = "enter" => \A d \in aborted : d \notin Visible(last.sess)

\* C12: the scopes two threads have open hold distinct sessions, each owned
\* by its thread, and a step of one thread changes neither another thread's
\* slot, nor its scopes, nor any session another thread owns.
C12_SessionsIsolatedPerContext ==
    /\ [](\A p \in Open, q \in Open :
             /\ sessions[FrameAt(p).sess].owner = p[1]
             /\ p[1] # q[1] => FrameAt(p).sess # FrameAt(q).sess)
    /\ [][\A c \in Ctx : last'.ctx = c =>
             \A o \in Ctx \ {c} :
                 /\ SESSION_HOLDER'[o] = SESSION_HOLDER[o]
                 /\ stack'[o] = stack[o]
                 /\ \A s \in DOMAIN sessions :
                        sessions[s].owner = o => sessions'[s] = sessions[s]]_vars

\* two threads are inside scopes, and one of them has just committed,
\* rolled back or exited a scope
C12_Witness ==
    /\ \A c \in Ctx : SESSION_HOLDER[c] # 0
    /\ \E p \in Open, q \in Open : p[1] # q[1]
    /\ last.op \in {"commit", "rollback", "exit"}

\* C14: an entry made with the slot set yields the slot's session and
\* creates no session; an entry made with the slot unset creates a session,
\* yields it and sets the slot to it.
C14_EntryReusesOrCreates ==
    [][\A c \in Ctx :
          (last'.op = "enter" /\ last'.ctx = c /\ Len(stack'[c]) = Len(stack[c]) + 1) =>
              /\ stack'[c][Len(stack'[c])].sess = last'.sess
              /\ IF SESSION_HOLDER[c] # 0
                 THEN /\ last'.sess = SESSION_HOLDER[c]
                      /\ sessions' = sessions
                      /\ SESSION_HOLDER' = SESSION_HOLDER
                 ELSE /\ Len(sessions') = Len(sessions) + 1
                      /\ last'.sess = Len(sessions')
                      /\ SESSION_HOLDER'[c] = last'.sess]_vars

\* an entry has just reused the slot's session inside an open scope
C14_Witness ==
    /\ last.op = "enter"
    /\ ~last.fresh
    /\ Depth(last.ctx) = 2
    /\ stack[last.ctx][1].sess = stack[last.ctx][2].sess
    /\ SESSION_HOLDER[last.ctx] = last.sess

\* C15: when a scope whose body finished but whose commit raised has
\* exited, the session has been rolled back and is closed, the thread's
\* slot is unset and the caller observes the commit's error.
C15_CommitErrorPropagates ==
    (Exited /\ last.err = CommitError) =>
        /\ last.rolledBack
        /\ sessions[last.sess].closed
        /\ SESSION_HOLDER[last.ctx] = 0
        /\ last.raised = CommitError

\* C16: a scope whose body finished and whose commit succeeded raises
\* nothing to its caller.
C16_CleanScopeRaisesNothing ==
    (Exited /\ last.err = NoError) => last.raised = NoError

\* C17: a commit or a rollback is only ever issued on a session that no
\* scope exit has closed.
C17_NoUseAfterClose ==
    last.op \in {"commit", "rollback"} => sessions[last.sess].closes = 0

\* C13: create_table(t) on a table that exists in the current engine's
\* database, and drop_table(t) on one that does not, raise nothing and leave
\* the tables of every database unchanged.
C13_CreateDropIdempotent ==
    [][\A t \in Tables :
          /\ (last'.op = "create_table" /\ last'.table = t /\ t \in tables[CurrentDb]) =>
                 (last'.raised = NoError /\ last'.existed /\ tables' = tables)
          /\ (last'.op = "drop_table" /\ last'.table = t /\ t \notin tables[CurrentDb]) =>
                 (last'.raised = NoError /\ ~last'.existed /\ tables' = tables)]_vars

\* create_table has just been called, after an init(), on a table that
\* existed
C13_Witness ==
    /\ last.op = "create_table"
    /\ last.existed
    /\ last.raised = NoError
    /\ last.table \in tables[CurrentDb]
    /\ Len(engines) > 1

\* C18: whenever no init() call is in progress, the session factory is
\* bound to the engine the global ENGINE names; stated by what that implies:
\* the factory's engine and ENGINE are engines of the same database, so that
\* new sessions and the schema helpers act on the same database.
C18_FactoryFollowsEngine == AllIdle => engines[SESSION] = engines[ENGINE]

====
